---- MODULE Spec2Model ----
(***************************************************************************)
(* rpa_challenge: the spreadsheet loader (src/utils.py) and the browser    *)
(* loop that fills the rpachallenge.com form (src/automation.py).          *)
(*                                                                         *)
(* A Python str is a sequence of one-character strings, so that strip,     *)
(* lower and split are computed character by character.                    *)
(***************************************************************************)
EXTENDS Integers, Sequences, FiniteSets, TLC

\* ------------------------------------------------------------------ str

UpperLetters == <<"A","B","C","D","E","F","G","H","I","J","K","L","M","N","O","P","Q","R","S","T","U","V","W","X","Y","Z">>

LowerLetters == <<"a","b","c","d","e","f","g","h","i","j","k","l","m","n","o","p","q","r","s","t","u","v","w","x","y","z">>

Digits == <<"0","1","2","3","4","5","6","7","8","9">>

Range(s) == {s[n] : n \in DOMAIN s}

\* str.isspace for one character
isspace(ch) == ch \in {" ", "\t"}

\* str.isalnum for one character
isalnum(ch) == ch \in Range(UpperLetters) \cup Range(LowerLetters) \cup Range(Digits)

\* str.lower for one character
lowerch(ch) ==
  IF ch \in Range(UpperLetters) THEN LowerLetters[CHOOSE n \in DOMAIN UpperLetters : UpperLetters[n] = ch] ELSE ch

\* str.lower
lower(s) == [n \in DOMAIN s |-> lowerch(s[n])]

\* str.strip(): drop leading and trailing whitespace
strip(s) ==
  LET keep == {n \in DOMAIN s : ~isspace(s[n])}
  IN  IF keep = {} THEN <<>>
      ELSE SubSeq(s, CHOOSE a \in keep : \A n \in keep : a <= n,
                     CHOOSE b \in keep : \A n \in keep : n <= b)

RECURSIVE SplitFrom(_, _, _, _)
SplitFrom(s, n, cur, acc) ==
  LET done == IF cur = <<>> THEN acc ELSE Append(acc, cur)
  IN  IF n > Len(s) THEN done
      ELSE IF isspace(s[n]) THEN SplitFrom(s, n + 1, <<>>, done)
      ELSE SplitFrom(s, n + 1, Append(cur, s[n]), acc)

\* str.split() without a separator: the words between whitespace runs
split(s) == SplitFrom(s, 1, <<>>, <<>>)

RECURSIVE join(_, _)
\* sep.join(words)
join(sep, words) ==
  IF words = <<>> THEN <<>>
  ELSE IF Len(words) = 1 THEN words[1]
  ELSE words[1] \o sep \o join(sep, Tail(words))

\* ---------------------------------------------------------------- utils

FirstName == <<"F","i","r","s","t"," ","N","a","m","e">>

LastName == <<"L","a","s","t"," ","N","a","m","e">>

CompanyName == <<"C","o","m","p","a","n","y"," ","N","a","m","e">>

RoleInCompany == <<"R","o","l","e"," ","i","n"," ","C","o","m","p","a","n","y">>

Address == <<"A","d","d","r","e","s","s">>

Email == <<"E","m","a","i","l">>

PhoneNumber == <<"P","h","o","n","e"," ","N","u","m","b","e","r">>

\* the dict of header spellings, as (token, canonical name) pairs
_CANONICAL_BY_TOKEN ==
  <<<<<<"f","i","r","s","t","n","a","m","e">>, FirstName>>,
     <<<<"f","i","r","s","t"," ","n","a","m","e">>, FirstName>>,
     <<<<"l","a","s","t","n","a","m","e">>, LastName>>,
     <<<<"l","a","s","t"," ","n","a","m","e">>, LastName>>,
     <<<<"c","o","m","p","a","n","y","n","a","m","e">>, CompanyName>>,
     <<<<"c","o","m","p","a","n","y"," ","n","a","m","e">>, CompanyName>>,
     <<<<"r","o","l","e","i","n","c","o","m","p","a","n","y">>, RoleInCompany>>,
     <<<<"r","o","l","e"," ","i","n"," ","c","o","m","p","a","n","y">>, RoleInCompany>>,
     <<<<"a","d","d","r","e","s","s">>, Address>>,
     <<<<"e","m","a","i","l">>, Email>>,
     <<<<"p","h","o","n","e","n","u","m","b","e","r">>, PhoneNumber>>,
     <<<<"p","h","o","n","e"," ","n","u","m","b","e","r">>, PhoneNumber>>,
     <<<<"p","h","o","n","e">>, PhoneNumber>>>>

\* _CANONICAL_BY_TOKEN.get(tok): the canonical name, or the empty (falsy) value
CanonicalGet(tok) ==
  IF \E n \in DOMAIN _CANONICAL_BY_TOKEN : _CANONICAL_BY_TOKEN[n][1] = tok
  THEN _CANONICAL_BY_TOKEN[CHOOSE n \in DOMAIN _CANONICAL_BY_TOKEN :
                            _CANONICAL_BY_TOKEN[n][1] = tok][2]
  ELSE <<>>

\* a normalization that keeps the case
tok_keeps_case(s) ==
  join(<<" ">>, split(SelectSeq(s, LAMBDA ch : isalnum(ch) \/ isspace(ch))))

\* lowercase, keep letters/digits/spaces, collapse spaces
_tok(s) ==
  join(<<" ">>, split(SelectSeq(lower(s), LAMBDA ch : isalnum(ch) \/ isspace(ch))))

\* A cell of a DataFrame: a str, or NaN
NaN == [na |-> TRUE, s |-> <<>>]

Str(s) == [na |-> FALSE, s |-> s]

\* The strings pandas reads as NaN by default (keep_default_na=True), which
\* dtype=str does not turn off; the empty cell is one of them.
NA_VALUES ==
  {<<>>,
     <<"#","N","/","A">>,
     <<"#","N","A">>,
     <<"<","N","A",">">>,
     <<"N","/","A">>,
     <<"N","A">>,
     <<"N","U","L","L">>,
     <<"N","a","N">>,
     <<"N","o","n","e">>,
     <<"n","/","a">>,
     <<"n","a","n">>,
     <<"n","u","l","l">>}

\* pandas names a repeated header X as X.1, X.2, ...
MangledLabel(header, j) ==
  LET before == Cardinality({n \in 1..(j - 1) : header[n] = header[j]})
  IN  IF before = 0 THEN header[j]
      ELSE header[j] \o <<".">> \o <<Digits[before + 1]>>

\* The parser behind read_csv and read_excel (pandas' TextParser) with dtype=str:
\* the first line is the header, every other cell is a str or NaN
read_table(f) ==
  [columns |-> [j \in DOMAIN f.header |-> MangledLabel(f.header, j)],
   data    |-> [r \in DOMAIN f.data |->
                 [j \in DOMAIN f.data[r] |->
                   IF f.data[r][j] \in NA_VALUES THEN NaN ELSE Str(f.data[r][j])]]]

\* one entry of the rename dict
RenameOf(col) ==
  LET canon == CanonicalGet(_tok(col))
  IN  IF canon # <<>> THEN canon ELSE strip(col)

\* the columns renamed by the rename dict
_rename_to_canonical(df) ==
  [df EXCEPT !.columns = [j \in DOMAIN df.columns |-> RenameOf(df.columns[j])]]

\* df.fillna("")
fillna(df) ==
  [df EXCEPT !.data = [r \in DOMAIN df.data |->
     [j \in DOMAIN df.data[r] |->
        IF df.data[r][j].na THEN Str(<<>>) ELSE df.data[r][j]]]]

\* df.map(lambda v: v.strip() ...)
map_strip(df) ==
  [df EXCEPT !.data = [r \in DOMAIN df.data |->
     [j \in DOMAIN df.data[r] |-> Str(strip(df.data[r][j].s))]]]

\* df.to_dict(orient="records"): of two columns with one name the later one wins
to_dict_records(df) ==
  [r \in DOMAIN df.data |->
     [k \in Range(df.columns) |->
        df.data[r][CHOOSE j \in DOMAIN df.columns :
                     /\ df.columns[j] = k
                     /\ \A m \in DOMAIN df.columns : df.columns[m] = k => m <= j].s]]

\* rows[:limit]
Take(s, n) == SubSeq(s, 1, IF n < Len(s) THEN n ELSE Len(s))

\* str.endswith(suffix)
endswith(s, suffix) ==
  /\ Len(suffix) <= Len(s)
  /\ SubSeq(s, Len(s) - Len(suffix) + 1, Len(s)) = suffix

\* pd.read_excel(path, engine="openpyxl", dtype=str)
read_excel(f) == read_table(f)

\* pd.read_csv(path, dtype=str)
read_csv(f) == read_table(f)

\* read_rows(path, limit)
read_rows(f, limit) ==
  LET df == IF \/ endswith(lower(f.path), <<".","x","l","s">>)
               \/ endswith(lower(f.path), <<".","x","l","s","x">>)
            THEN read_excel(f)
            ELSE read_csv(f)
  IN  Take(to_dict_records(map_strip(fillna(_rename_to_canonical(df)))), limit)

\* the default of read_rows' limit parameter
DefaultLimit == 10

\* ---------------------------------------------------------------- files

\* tests/test_utils.py:14-17, mini.csv
MiniCsv ==
  [path |-> <<"m","i","n","i",".","c","s","v">>,
   header |-> <<<<" ","f","i","r","s","t"," ","n","a","m","e"," ">>,
               <<" ","L","A","S","T"," "," ","N","A","M","E"," ">>,
               <<"C","o","m","p","a","n","y"," ","n","a","m","e">>,
               <<"R","o","l","e"," ","i","n"," ","c","o","m","p","a","n","y">>,
               <<" ","a","d","d","r","e","s","s"," ">>,
               <<" ","E","m","a","i","l"," ">>,
               <<" ","p","h","o","n","e"," ","n","u","m","b","e","r"," ">>,
               <<" ","E","x","t","r","a">>>>,
   data |-> <<<<<<"A","d","a">>,
              <<"L","o","v","e","l","a","c","e">>,
              <<"A","n","a","l","y","t","i","c","a">>,
              <<"E","n","g","i","n","e","e","r">>,
              <<"S","o","m","e"," ","S","t">>,
              <<"a","d","a","@","e","x",".","c","o","m">>,
              <<"0","0","1","2","3">>,
              <<"n","o","i","s","e">>>>>>]

\* tests/test_utils.py:35-38, empty.csv
EmptyCsv ==
  [path |-> <<"e","m","p","t","y",".","c","s","v">>,
   header |-> <<<<"F","i","r","s","t"," ","N","a","m","e">>,
               <<"L","a","s","t"," ","N","a","m","e">>,
               <<"C","o","m","p","a","n","y"," ","N","a","m","e">>,
               <<"R","o","l","e"," ","i","n"," ","C","o","m","p","a","n","y">>,
               <<"A","d","d","r","e","s","s">>,
               <<"E","m","a","i","l">>,
               <<"P","h","o","n","e"," ","N","u","m","b","e","r">>>>,
   data |-> <<<<<<"J","o","h","n">>,
              <<>>,
              <<"A","c","m","e">>,
              <<>>,
              <<"S","o","m","e"," ","S","t">>,
              <<>>,
              <<>>>>>>]

\* tests/test_utils.py:48-54, mini.xlsx
MiniXlsx ==
  [path |-> <<"m","i","n","i",".","x","l","s","x">>,
   header |-> <<<<"F","i","r","s","t"," ","N","a","m","e">>,
               <<"L","a","s","t"," ","N","a","m","e">>,
               <<"C","o","m","p","a","n","y"," ","N","a","m","e">>,
               <<"R","o","l","e"," ","i","n"," ","C","o","m","p","a","n","y">>,
               <<"A","d","d","r","e","s","s">>,
               <<"E","m","a","i","l">>,
               <<"P","h","o","n","e"," ","N","u","m","b","e","r">>>>,
   data |-> <<<<<<"J","o","h","n">>,
              <<"D","o","e">>,
              <<"A","c","m","e">>,
              <<"D","e","v">>,
              <<"A"," ","S","t">>,
              <<"j","@","e",".","c","o","m">>,
              <<"0","0","0","7">>>>>>]

\* a sheet with a header line and no data line
HeaderOnlyCsv ==
  [path |-> <<"n","o","n","e",".","c","s","v">>,
   header |-> <<<<"F","i","r","s","t"," ","N","a","m","e">>,
               <<"L","a","s","t"," ","N","a","m","e">>,
               <<"C","o","m","p","a","n","y"," ","N","a","m","e">>,
               <<"R","o","l","e"," ","i","n"," ","C","o","m","p","a","n","y">>,
               <<"A","d","d","r","e","s","s">>,
               <<"E","m","a","i","l">>,
               <<"P","h","o","n","e"," ","N","u","m","b","e","r">>>>,
   data |-> <<>>]

\* two data lines; Last Name, Company Name, Role in Company and Address are missing
TwoRowsXlsx ==
  [path |-> <<"t","w","o",".","X","L","S","X">>,
   header |-> <<<<"F","i","r","s","t"," ","N","a","m","e">>,
               <<"E","-","m","a","i","l">>,
               <<"p","h","o","n","e">>,
               <<"N","o","t","e","s">>>>,
   data |-> <<<<<<"A","d","a">>,
              <<" ","a","@","x"," ">>,
              <<" "," ">>,
              <<"n","1">>>>,
             <<<<"B","o","b">>,
              <<>>,
              <<"0","0","7">>,
              <<"n","2">>>>>>]

\* header spellings of generated files
HeaderPool ==
  {<<" ","f","i","r","s","t"," ","n","a","m","e"," ">>,
     <<"L","A","S","T"," "," ","N","A","M","E">>,
     <<"F","i","r","s","t","-","N","a","m","e">>,
     <<"E","-","m","a","i","l">>,
     <<"e"," ","m","a","i","l">>,
     <<"P","h","o","n","e">>,
     <<"p","h","o","n","e"," ","n","o">>,
     <<" ","E","x","t","r","a">>,
     <<"R","O","L","E","\t","I","N"," ","C","O","M","P","A","N","Y">>,
     <<"A","d","d","r","e","s","s">>}

\* cell texts of generated files
CellPool == {<<>>, <<" "," ">>, <<" ","A","d","a"," ">>, <<"0","0","1","2","3">>, <<"N","A">>}

GeneratedPaths == {<<"d","a","t","a",".","c","s","v">>, <<"d","a","t","a",".","x","l","s","x">>}

MaxCols == 2

MaxDataRows == 1

SeqsUpTo(S, n) == UNION {[1..m -> S] : m \in 1..n}

CanonOrder == <<FirstName, LastName, CompanyName, RoleInCompany, Address, Email, PhoneNumber>>

\* files that vary the header line over one plain data row
HeaderFiles ==
  {[path |-> k, header |-> h, data |-> <<[j \in DOMAIN h |-> <<"x">>]>>] :
     k \in GeneratedPaths, h \in SeqsUpTo(HeaderPool, MaxCols)}

\* files that vary the cells under clean headers
CellFiles ==
  {[path |-> k, header |-> SubSeq(CanonOrder, 1, MaxCols), data |-> d] :
     k \in GeneratedPaths,
     d \in {<<>>} \cup SeqsUpTo([1..MaxCols -> CellPool], MaxDataRows)}

\* the sheets read_rows is checked on
Files == {MiniCsv, EmptyCsv, MiniXlsx} \cup HeaderFiles \cup CellFiles

\* the sheets a whole run is checked on
RunFiles == {MiniCsv, HeaderOnlyCsv, TwoRowsXlsx}

\* ----------------------------------------------------------- automation

\* FIELD_MAP: spreadsheet header -> ng-reflect-name, in the dict's order
FIELD_MAP ==
  <<<<FirstName, "labelFirstName">>,
    <<LastName, "labelLastName">>,
    <<CompanyName, "labelCompanyName">>,
    <<RoleInCompany, "labelRole">>,
    <<Address, "labelAddress">>,
    <<Email, "labelEmail">>,
    <<PhoneNumber, "labelPhone">>>>

\* the ng-reflect-name values in the order of FIELD_MAP
ReflectOrder == [n \in DOMAIN FIELD_MAP |-> FIELD_MAP[n][2]]

MaxShift == 2

\* The page shows the seven inputs in an order that changes with every round:
\* the layouts tried are the rotations of ReflectOrder by 0..MaxShift places.
Layouts ==
  {[p \in DOMAIN ReflectOrder |-> ReflectOrder[((p - 1 + s) % Len(ReflectOrder)) + 1]] :
     s \in 0..MaxShift}

\* the inputs of a freshly shown round are empty
EmptyInputs == [p \in DOMAIN ReflectOrder |-> <<>>]

\* a locator that takes the input at the column's own place in FIELD_MAP
LocateByPosition(reflect, lay) ==
  CHOOSE p \in DOMAIN ReflectOrder : ReflectOrder[p] = reflect

\* page.locator('input[ng-reflect-name="<reflect>"]'): the place of that input
Locate(reflect, lay) == CHOOSE p \in DOMAIN lay : lay[p] = reflect

\* (row.get(col) or "").strip()
FillValue(row, col) == strip(IF col \in DOMAIN row THEN row[col] ELSE <<>>)

\* round_timeout = 5000 if perf_mode else 10000
round_timeout(perf) == IF perf THEN 5000 ELSE 10000

\* what a browser call can raise
Exceptions == {"PWTimeoutError", "Error"}

Results == {"ok"} \cup Exceptions

\* a retry after any exception
RetryOnAny(e) == TRUE

\* except PWTimeoutError: around the first page.goto
RetryOn(e) == e = "PWTimeoutError"

\* an error screenshot taken without looking at page
ErrorShotAlways(p) == TRUE

\* if page: before the error screenshot
ErrorShotAllowed(p) == p

\* a trace path given on every run
TracePathAlways(f) == "screenshots/trace.zip"

\* the path given to context.tracing.stop: only after a failure
TracePath(f) == IF f THEN "screenshots/trace.zip" ELSE ""

\* a guard that lets an empty sheet through
NoRowsNever(r) == FALSE

\* if not rows
NoRows(r) == r = <<>>

VARIABLES
  file,        \* the spreadsheet at file_path
  headless,    \* argument
  perf_mode,   \* argument
  rows,        \* list(read_rows(file_path))
  pc,          \* the statement run_rpa_challenge is at
  i,           \* the round, enumerate(rows, 1)
  k,           \* the place in FIELD_MAP of the column _fill_round is at
  page,        \* whether page is set (TRUE) or None (FALSE)
  failed,      \* the local failed
  exc,         \* the exception on its way to the caller, "" when none
  layout,      \* the page: ng-reflect-name of the input at each place
  inputs,      \* the page: text of the input at each place
  submitted,   \* the page: the forms it received, one per Submit
  log,         \* every call made to the browser, the clock and the file system
  fs,          \* the files and directories written
  site_timer,  \* the local site_timer
  outcome,     \* "running", "SystemExit", "raised" or "returned"
  result       \* <<summary>> once returned

vars ==
  <<file, headless, perf_mode, rows, pc, i, k, page, failed, exc, layout, inputs,
    submitted, log, fs, site_timer, outcome, result>>

args == <<file, headless, perf_mode>>

web == <<layout, inputs, submitted>>

\* one call: its name, the round, the column and input it wrote, the text, an
\* argument, the timeout and how it ended
Ev(op, round, col, field, value, arg, timeout, res) ==
  [op |-> op, round |-> round, col |-> col, field |-> field, value |-> value,
   arg |-> arg, timeout |-> timeout, res |-> res]

Call(op, arg, timeout, res) == Ev(op, 0, <<>>, "", <<>>, arg, timeout, res)

Rest ==
  /\ headless \in BOOLEAN
  /\ perf_mode \in BOOLEAN
  /\ rows = <<>>
  /\ pc = "load"
  /\ i = 0
  /\ k = 0
  /\ page = FALSE
  /\ failed = FALSE
  /\ exc = ""
  /\ layout = <<>>
  /\ inputs = <<>>
  /\ submitted = <<>>
  /\ log = <<>>
  /\ fs = {}
  /\ site_timer = ""
  /\ outcome = "running"
  /\ result = <<>>

Init == file \in RunFiles /\ Rest

InitRows == file \in Files /\ Rest /\ ~headless /\ ~perf_mode

\* rows[i - 1] of enumerate(rows, 1), always the first row
RowForFirst(n) == rows[1]

\* the row of round n: enumerate(rows, 1)
RowFor(n) == rows[n]

\* if i != len(rows) is false: the last round
IsLastRow(n) == n = Len(rows)

\* lines 73-75: read the sheet, give up on an empty one
Load ==
  /\ pc = "load"
  /\ rows' = read_rows(file, DefaultLimit)
  /\ IF NoRows(rows')
     THEN pc' = "done" /\ outcome' = "SystemExit"
     ELSE pc' = "mkdir" /\ UNCHANGED outcome
  /\ UNCHANGED <<args, i, k, page, failed, exc, web, log, fs, site_timer, result>>

\* line 80: Path("screenshots").mkdir(exist_ok=True)
Mkdir ==
  /\ pc = "mkdir"
  /\ fs' = fs \cup {"screenshots"}
  /\ log' = Append(log, Call("mkdir", "screenshots", 0, "ok"))
  /\ pc' = "launch"
  /\ UNCHANGED <<args, rows, i, k, page, failed, exc, web, site_timer, outcome, result>>

\* A call before the try: an exception leaves run_rpa_challenge at once.
Setup(at, op, next) ==
  /\ pc = at
  /\ \E res \in Results :
       /\ log' = Append(log, Call(op, "", 0, res))
       /\ IF res = "ok"
          THEN pc' = next /\ UNCHANGED <<exc, outcome>>
          ELSE pc' = "done" /\ exc' = res /\ outcome' = "raised"
  /\ UNCHANGED <<args, rows, i, k, page, failed, web, fs, site_timer, result>>

\* line 85: p.chromium.launch(headless=headless)
Launch == Setup("launch", "launch", "new_context")

\* line 88: browser.new_context(...)
NewContext ==
  Setup("new_context", "new_context", IF perf_mode THEN "perf_setup" ELSE "tracing_start")

\* lines 90-100: routes, init script and default timeout of perf mode
PerfSetup == Setup("perf_setup", "perf_setup", "tracing_start")

\* lines 102-105: failed = False, context.tracing.start(...), page = None
TracingStart == Setup("tracing_start", "tracing_start", "new_page")

\* lines 144-152: an exception reaches except Exception
Except(e) ==
  /\ failed' = TRUE
  /\ exc' = e
  /\ pc' = IF ErrorShotAllowed(page) THEN "error_screenshot" ELSE "tracing_stop"

\* line 108: page = context.new_page()
NewPage ==
  /\ pc = "new_page"
  /\ \E res \in Results :
       /\ log' = Append(log, Call("new_page", "", 0, res))
       /\ IF res = "ok"
          THEN page' = TRUE /\ pc' = "goto" /\ UNCHANGED <<failed, exc>>
          ELSE Except(res) /\ UNCHANGED page
  /\ UNCHANGED <<args, rows, i, k, web, fs, site_timer, outcome, result>>

\* lines 111-114: the first page.goto; a timeout goes to the retry
Goto ==
  /\ pc = "goto"
  /\ \E res \in Results :
       /\ log' = Append(log, Call("goto", "domcontentloaded", 30000, res))
       /\ IF res = "ok" THEN pc' = "click_start" /\ UNCHANGED <<failed, exc>>
          ELSE IF RetryOn(res) THEN pc' = "goto_retry" /\ UNCHANGED <<failed, exc>>
          ELSE Except(res)
  /\ UNCHANGED <<args, rows, i, k, page, web, fs, site_timer, outcome, result>>

\* line 115: the second page.goto
GotoRetry ==
  /\ pc = "goto_retry"
  /\ \E res \in Results :
       /\ log' = Append(log, Call("goto", "commit", 45000, res))
       /\ IF res = "ok" THEN pc' = "wait_start" /\ UNCHANGED <<failed, exc>>
          ELSE Except(res)
  /\ UNCHANGED <<args, rows, i, k, page, web, fs, site_timer, outcome, result>>

\* line 116: wait for the Start button after the retry
WaitStart ==
  /\ pc = "wait_start"
  /\ \E res \in Results :
       /\ log' = Append(log, Call("wait_start", "", 30000, res))
       /\ IF res = "ok" THEN pc' = "click_start" /\ UNCHANGED <<failed, exc>>
          ELSE Except(res)
  /\ UNCHANGED <<args, rows, i, k, page, web, fs, site_timer, outcome, result>>

\* lines 119-123: click Start, read the clock, enter the loop
ClickStart ==
  /\ pc = "click_start"
  /\ \E res \in Results :
       IF res = "ok"
       THEN /\ log' = log \o <<Call("click_start", "", 0, res),
                               Call("perf_counter", "start", 0, "ok")>>
            /\ layout' \in Layouts
            /\ inputs' = EmptyInputs
            /\ i' = 1
            /\ k' = 1
            /\ pc' = "fill"
            /\ UNCHANGED <<failed, exc, submitted>>
       ELSE /\ log' = Append(log, Call("click_start", "", 0, res))
            /\ Except(res)
            /\ UNCHANGED <<i, k, web>>
  /\ UNCHANGED <<args, rows, page, fs, site_timer, outcome, result>>

\* after column k: the next column, or the Submit click
AfterCol == IF k = Len(FIELD_MAP) THEN "click_submit" ELSE "fill"

\* lines 58-60: a column whose value is empty is passed over
SkipBlank ==
  /\ pc = "fill"
  /\ FillValue(RowFor(i), FIELD_MAP[k][1]) = <<>>
  /\ k' = IF k = Len(FIELD_MAP) THEN k ELSE k + 1
  /\ pc' = AfterCol
  /\ UNCHANGED <<args, rows, i, page, failed, exc, web, log, fs, site_timer, outcome,
                 result>>

\* lines 58-61: loc[col].fill(value, timeout=timeout_ms)
Fill ==
  /\ pc = "fill"
  /\ LET col == FIELD_MAP[k][1]
         value == FillValue(RowFor(i), col)
         p == Locate(FIELD_MAP[k][2], layout)
     IN  /\ value # <<>>
         /\ \E res \in Results :
              /\ log' = Append(log, Ev("fill", i, col, layout[p], value, "",
                                       round_timeout(perf_mode), res))
              /\ IF res = "ok"
                 THEN /\ inputs' = [inputs EXCEPT ![p] = value]
                      /\ k' = IF k = Len(FIELD_MAP) THEN k ELSE k + 1
                      /\ pc' = AfterCol
                      /\ UNCHANGED <<failed, exc>>
                 ELSE Except(res) /\ UNCHANGED <<inputs, k>>
  /\ UNCHANGED <<args, rows, i, page, layout, submitted, fs, site_timer, outcome, result>>

\* line 62: click Submit; the page takes the form and shows the next round
ClickSubmit ==
  /\ pc = "click_submit"
  /\ \E res \in Results :
       /\ log' = Append(log, Ev("click_submit", i, <<>>, "", <<>>, "", 0, res))
       /\ IF res = "ok"
          THEN /\ submitted' = Append(submitted,
                    [layout |-> layout,
                     form |-> {<<layout[p], inputs[p]>> :
                                 p \in {q \in DOMAIN inputs : inputs[q] # <<>>}}])
               /\ layout' \in Layouts
               /\ inputs' = EmptyInputs
               /\ pc' = "wait_fill_round"
               /\ UNCHANGED <<failed, exc>>
          ELSE Except(res) /\ UNCHANGED web
  /\ UNCHANGED <<args, rows, i, k, page, fs, site_timer, outcome, result>>

\* the predicate of wait_for_function: the first-name input is empty (or absent)
NextRoundReady ==
  \A p \in DOMAIN layout : layout[p] = "labelFirstName" => inputs[p] = <<>>

\* lines 65-68: the wait at the end of _fill_round, in every round; after the
\* last round the loop ends and the clock is read (line 131)
WaitFillRound ==
  /\ pc = "wait_fill_round"
  /\ \E res \in Results :
       /\ res = "ok" => NextRoundReady
       /\ LET ev == Ev("wait_next", i, <<>>, "", <<>>, "_fill_round",
                       round_timeout(perf_mode), res)
          IN  IF res = "ok"
              THEN /\ IF IsLastRow(i)
                      THEN /\ log' = log \o <<ev, Call("perf_counter", "stop", 0, "ok")>>
                           /\ pc' = "screenshot_result"
                      ELSE /\ log' = Append(log, ev)
                           /\ pc' = "wait_loop"
                   /\ UNCHANGED <<failed, exc>>
              ELSE log' = Append(log, ev) /\ Except(res)
  /\ UNCHANGED <<args, rows, i, k, page, web, fs, site_timer, outcome, result>>

\* lines 126-130: the loop's own wait, except after the last row
WaitLoop ==
  /\ pc = "wait_loop"
  /\ \E res \in Results :
       /\ res = "ok" => NextRoundReady
       /\ log' = Append(log, Ev("wait_next", i, <<>>, "", <<>>, "run_rpa_challenge",
                                round_timeout(perf_mode), res))
       /\ IF res = "ok"
          THEN i' = i + 1 /\ k' = 1 /\ pc' = "fill" /\ UNCHANGED <<failed, exc>>
          ELSE Except(res) /\ UNCHANGED <<i, k>>
  /\ UNCHANGED <<args, rows, page, web, fs, site_timer, outcome, result>>

\* line 134: page.screenshot(path="screenshots/result.png", full_page=True)
ScreenshotResult ==
  /\ pc = "screenshot_result"
  /\ \E res \in Results :
       /\ log' = Append(log, Call("screenshot", "screenshots/result.png", 0, res))
       /\ IF res = "ok"
          THEN /\ fs' = fs \cup {"screenshots/result.png"}
               /\ pc' = "text_content"
               /\ UNCHANGED <<failed, exc>>
          ELSE Except(res) /\ UNCHANGED fs
  /\ UNCHANGED <<args, rows, i, k, page, web, site_timer, outcome, result>>

\* lines 137-142: read the banner; an exception here is passed over
TextContent ==
  /\ pc = "text_content"
  /\ \E res \in Results :
       /\ log' = Append(log, Call("text_content", ".message2, .congratulations", 2000, res))
       /\ site_timer' = IF res = "ok" THEN "banner" ELSE ""
  /\ pc' = "tracing_stop"
  /\ UNCHANGED <<args, rows, i, k, page, failed, exc, web, fs, outcome, result>>

\* lines 147-151: the error screenshot; an exception here is passed over
ErrorScreenshot ==
  /\ pc = "error_screenshot"
  /\ \E res \in Results :
       /\ log' = Append(log, Call("screenshot", "screenshots/error.png", 0, res))
       /\ fs' = IF res = "ok" THEN fs \cup {"screenshots/error.png"} ELSE fs
  /\ pc' = "tracing_stop"
  /\ UNCHANGED <<args, rows, i, k, page, failed, exc, web, site_timer, outcome, result>>

\* lines 156-162: context.tracing.stop, with the trace path after a failure
TracingStop ==
  /\ pc = "tracing_stop"
  /\ \E res \in Results :
       /\ log' = Append(log, Call("tracing_stop", TracePath(failed), 0, res))
       /\ fs' = IF res = "ok" /\ TracePath(failed) # ""
                THEN fs \cup {TracePath(failed)} ELSE fs
  /\ pc' = "context_close"
  /\ UNCHANGED <<args, rows, i, k, page, failed, exc, web, site_timer, outcome, result>>

\* lines 163-166: context.close()
ContextClose ==
  /\ pc = "context_close"
  /\ \E res \in Results : log' = Append(log, Call("context_close", "", 0, res))
  /\ pc' = "browser_close"
  /\ UNCHANGED <<args, rows, i, k, page, failed, exc, web, fs, site_timer, outcome,
                 result>>

\* lines 167-170 and 152: browser.close(), then the exception goes on to the caller
BrowserClose ==
  /\ pc = "browser_close"
  /\ \E res \in Results : log' = Append(log, Call("browser_close", "", 0, res))
  /\ IF exc # ""
     THEN pc' = "done" /\ outcome' = "raised"
     ELSE pc' = "summary" /\ UNCHANGED outcome
  /\ UNCHANGED <<args, rows, i, k, page, failed, exc, web, fs, site_timer, result>>

\* lines 172-194: build the summary, write run_summary.json, return
Summary ==
  /\ pc = "summary"
  /\ result' = <<[ok |-> TRUE, rounds |-> Len(rows), headless |-> headless,
                  perf |-> perf_mode, site_timer |-> site_timer]>>
  /\ log' = Append(log, Call("open", "screenshots/run_summary.json", 0, "ok"))
  /\ fs' = fs \cup {"screenshots/run_summary.json"}
  /\ outcome' = "returned"
  /\ pc' = "done"
  /\ UNCHANGED <<args, rows, i, k, page, failed, exc, web, site_timer>>

Next ==
  \/ Load
  \/ Mkdir
  \/ Launch
  \/ NewContext
  \/ PerfSetup
  \/ TracingStart
  \/ NewPage
  \/ Goto
  \/ GotoRetry
  \/ WaitStart
  \/ ClickStart
  \/ SkipBlank
  \/ Fill
  \/ ClickSubmit
  \/ WaitFillRound
  \/ WaitLoop
  \/ ScreenshotResult
  \/ TextContent
  \/ ErrorScreenshot
  \/ TracingStop
  \/ ContextClose
  \/ BrowserClose
  \/ Summary

\* run_rpa_challenge on the sheets of RunFiles
Spec == Init /\ [][Next]_vars

\* read_rows, as run_rpa_challenge calls it, on the sheets of Files
SpecRows == InitRows /\ [][Load]_vars

\* --------------------------------------------------------------- claims

Min(S) == CHOOSE a \in S : \A b \in S : a <= b

RECURSIVE TrimLeft(_)
TrimLeft(s) == IF s # <<>> /\ isspace(Head(s)) THEN TrimLeft(Tail(s)) ELSE s

RECURSIVE TrimRight(_)
TrimRight(s) ==
  IF s # <<>> /\ isspace(s[Len(s)]) THEN TrimRight(SubSeq(s, 1, Len(s) - 1)) ELSE s

\* a text without its leading and trailing whitespace
Trimmed(s) == TrimRight(TrimLeft(s))

RECURSIVE Collapse(_, _)
Collapse(s, out) ==
  IF s = <<>> THEN out
  ELSE IF isspace(Head(s))
       THEN Collapse(Tail(s),
                     IF out = <<>> \/ out[Len(out)] = " " THEN out ELSE Append(out, " "))
       ELSE IF isalnum(Head(s)) THEN Collapse(Tail(s), Append(out, lowerch(Head(s))))
       ELSE Collapse(Tail(s), out)

\* a header lower-cased, without the characters that are neither alphanumeric
\* nor whitespace, its whitespace runs collapsed to single spaces
Normalized(h) == TrimRight(Collapse(h, <<>>))

\* the key a column is expected under
ExpectedKey(h) ==
  IF CanonicalGet(Normalized(h)) # <<>> THEN CanonicalGet(Normalized(h)) ELSE Trimmed(h)

\* the column headers of the sheet as the parser names them
Labels == [j \in DOMAIN file.header |-> MangledLabel(file.header, j)]

Loaded == pc # "load"

\* the (input name, text) pairs a row is expected to put into the form
ExpectedForm(row) ==
  {<<FIELD_MAP[n][2], Trimmed(row[FIELD_MAP[n][1]])>> :
     n \in {m \in DOMAIN FIELD_MAP :
              /\ FIELD_MAP[m][1] \in DOMAIN row
              /\ Trimmed(row[FIELD_MAP[m][1]]) # <<>>}}

At(op) == {n \in DOMAIN log : log[n].op = op}

FillsOf(r) == {n \in At("fill") : log[n].round = r}

SubmitsOf(r) == {n \in At("click_submit") : log[n].round = r}

WaitsOf(r) == {n \in At("wait_next") : log[n].round = r}

ErrorShots == {n \in At("screenshot") : log[n].arg = "screenshots/error.png"}

\* the calls of the cleanup and of the error handler
AftermathOps == {"tracing_stop", "context_close", "browser_close"}

\* the calls whose exception ends the run: every call but the banner read, the
\* error screenshot, the cleanup, and a first navigation that timed out
Escaped ==
  {n \in DOMAIN log :
     /\ log[n].res # "ok"
     /\ log[n].op \notin AftermathOps \cup {"text_content"}
     /\ n \notin ErrorShots
     /\ ~(log[n].op = "goto" /\ n = Min(At("goto")) /\ log[n].res = "PWTimeoutError")}

TracingStarted == \E n \in At("tracing_start") : log[n].res = "ok"

\* C1: after Start the rows of read_rows are processed one at a time in sheet
\* order: round r fills from row r, all its fills come before its one Submit, no
\* call of round r+1 comes before a completed wait after Submit r, and a run that
\* returns has clicked Submit once per row.
C1_RowsInOrder ==
  /\ \A n \in At("fill") \cup At("click_submit") :
       /\ \E m \in At("click_start") : m < n /\ log[m].res = "ok"
       /\ log[n].round \in DOMAIN rows
  /\ \A r \in DOMAIN rows :
       /\ Cardinality(SubmitsOf(r)) <= 1
       /\ \A f \in FillsOf(r) :
            /\ \A s \in SubmitsOf(r) : f < s
            /\ log[f].col \in DOMAIN rows[r]
            /\ log[f].value = Trimmed(rows[r][log[f].col])
       /\ r > 1 =>
            \A n \in FillsOf(r) \cup SubmitsOf(r) :
              \E s \in SubmitsOf(r - 1), w \in WaitsOf(r - 1) :
                s < w /\ w < n /\ log[s].res = "ok" /\ log[w].res = "ok"
  /\ outcome = "returned" =>
       /\ Cardinality(At("click_submit")) = Len(rows)
       /\ \A r \in DOMAIN rows : \E s \in SubmitsOf(r) : log[s].res = "ok"

C1_Witness ==
  /\ outcome = "returned"
  /\ Len(rows) = 2
  /\ FillsOf(1) # {}
  /\ FillsOf(2) # {}

\* C2: every fill writes the stripped row[col] into the input named
\* FIELD_MAP[col], for exactly the FIELD_MAP columns with a non-blank value; the
\* form the page receives depends on the row alone, whatever the layout.
C2_FilledByName ==
  /\ \A n \in At("fill") :
       /\ \E m \in DOMAIN FIELD_MAP :
            log[n].col = FIELD_MAP[m][1] /\ log[n].field = FIELD_MAP[m][2]
       /\ <<log[n].field, log[n].value>> \in ExpectedForm(rows[log[n].round])
  /\ \A r \in DOMAIN submitted : submitted[r].form = ExpectedForm(rows[r])

C2_Witness ==
  \E r \in DOMAIN submitted :
    /\ submitted[r].layout # ReflectOrder
    /\ submitted[r].form # {}
    /\ \E c \in DOMAIN rows[r] : \A m \in DOMAIN FIELD_MAP : FIELD_MAP[m][1] # c
    /\ \E m \in DOMAIN FIELD_MAP : FIELD_MAP[m][1] \notin DOMAIN rows[r]
    /\ \E m \in DOMAIN FIELD_MAP :
         FIELD_MAP[m][1] \in DOMAIN rows[r] /\ rows[r][FIELD_MAP[m][1]] = <<>>

\* C3: page.goto is attempted at most twice, the second time only right after
\* the first timed out; a failure of the second attempt, of the wait for Start
\* or of any later step is followed by no run step at all; Start is clicked only
\* after a navigation attempt succeeded.
C3_SingleRetry ==
  /\ Cardinality(At("goto")) <= 2
  /\ \A n, m \in At("goto") : n < m => m = n + 1 /\ log[n].res = "PWTimeoutError"
  /\ \A n \in At("wait_start") :
       n - 1 \in At("goto") /\ log[n - 1].arg = "commit" /\ log[n - 1].res = "ok"
  /\ \A n \in DOMAIN log :
       /\ log[n].res # "ok"
       /\ log[n].op \in {"goto", "wait_start", "click_start", "fill", "click_submit",
                         "wait_next"}
       /\ ~(log[n].op = "goto" /\ n = Min(At("goto")) /\ log[n].res = "PWTimeoutError")
       => \A m \in DOMAIN log :
            m > n => log[m].op \in AftermathOps \/ m \in ErrorShots
  /\ \A n \in At("click_start") : \E m \in At("goto") : m < n /\ log[m].res = "ok"

C3_Witness ==
  /\ pc = "done"
  /\ Cardinality(At("goto")) = 2
  /\ \E n \in At("goto") : log[n].arg = "commit" /\ log[n].res # "ok"

\* C4: every column is keyed by the canonical name its normalized header stands
\* for, and otherwise by its own header without surrounding whitespace; the
\* rows hold exactly these keys.
C4_CanonicalHeaders ==
  Loaded =>
    /\ Len(rows) = IF Len(file.data) < DefaultLimit THEN Len(file.data) ELSE DefaultLimit
    /\ \A r \in DOMAIN rows :
         DOMAIN rows[r] = {ExpectedKey(Labels[j]) : j \in DOMAIN Labels}

C4_Witness ==
  /\ Loaded
  /\ file = MiniCsv
  /\ Len(rows) = 1
  /\ \A c \in Range(CanonOrder) : c \in DOMAIN rows[1]
  /\ <<"E","x","t","r","a">> \in DOMAIN rows[1]

\* the columns no other column shares its key with
OwnKey(j) ==
  \A m \in DOMAIN Labels : ExpectedKey(Labels[m]) = ExpectedKey(Labels[j]) => m = j

\* C5: every cell of every row is the text of the sheet's cell without its
\* leading and trailing whitespace, the empty text for an empty cell, under its
\* column's key.
C5_CellsAreText ==
  Loaded =>
    \A r \in DOMAIN rows : \A j \in DOMAIN Labels :
      /\ ExpectedKey(Labels[j]) \in DOMAIN rows[r]
      /\ OwnKey(j) => rows[r][ExpectedKey(Labels[j])] = Trimmed(file.data[r][j])

\* C5 aside: the same, apart from the cells whose text pandas reads as NaN
C5_CellsAreTextUnlessNA ==
  Loaded =>
    \A r \in DOMAIN rows : \A j \in DOMAIN Labels :
      /\ ExpectedKey(Labels[j]) \in DOMAIN rows[r]
      /\ OwnKey(j) =>
           rows[r][ExpectedKey(Labels[j])] =
             IF file.data[r][j] \in NA_VALUES THEN <<>> ELSE Trimmed(file.data[r][j])

\* a returned row holds the empty text where the sheet's cell reads NA
C5_Witness ==
  /\ Loaded
  /\ \E r \in DOMAIN rows : \E j \in DOMAIN Labels :
       /\ OwnKey(j)
       /\ file.data[r][j] = <<"N","A">>
       /\ rows[r][ExpectedKey(Labels[j])] = <<>>

\* C6: no wait for the next round follows the last row's Submit: the clock is
\* stopped right after that click, and waits belong to the earlier rounds only.
C6_NoWaitAfterLastSubmit ==
  /\ \A n \in At("perf_counter") :
       log[n].arg = "stop" =>
         log[n - 1].op = "click_submit" /\ log[n - 1].round = Len(rows)
  /\ \A n \in At("wait_next") : log[n].round # Len(rows)

\* the clock is stopped after a completed wait that followed the last Submit
C6_Witness ==
  \E n \in At("perf_counter") :
    /\ log[n].arg = "stop"
    /\ log[n - 1].op = "wait_next"
    /\ log[n - 1].round = Len(rows)
    /\ log[n - 2].op = "click_submit"

\* the cleanup of a finished run: one tracing stop, one context close, one
\* browser close, the last three calls but the summary's
CleanupOnceInOrder ==
  \E n \in DOMAIN log :
    /\ At("tracing_stop") = {n}
    /\ At("context_close") = {n + 1}
    /\ At("browser_close") = {n + 2}
    /\ \A m \in DOMAIN log : m > n + 2 => log[m].op = "open"

\* the outcome of the run is that of its steps
OutcomeKept ==
  IF Escaped = {} THEN outcome = "returned" /\ exc = ""
  ELSE outcome = "raised" /\ exc = log[Min(Escaped)].res

\* C7 as stated: after the cleanup the trace file exists if and only if a step
\* of the run raised.
C7_TraceIffFailed ==
  pc = "done" /\ TracingStarted =>
    /\ CleanupOnceInOrder
    /\ OutcomeKept
    /\ "screenshots/trace.zip" \in fs <=> Escaped # {}

\* C7 amended: the cleanup runs once, in order, whatever its steps raise, and
\* keeps the outcome; tracing.stop is given the trace path if and only if a step
\* of the run raised, and the trace file exists if and only if that stop did not
\* raise.
C7_CleanupAlways ==
  pc = "done" /\ TracingStarted =>
    /\ CleanupOnceInOrder
    /\ OutcomeKept
    /\ \A n \in At("tracing_stop") :
         /\ log[n].arg = "screenshots/trace.zip" <=> Escaped # {}
         /\ "screenshots/trace.zip" \in fs <=> Escaped # {} /\ log[n].res = "ok"

C7_Witness ==
  /\ pc = "done"
  /\ Escaped # {}
  /\ \E n \in At("tracing_stop") : log[n].res # "ok"
  /\ \E n \in At("context_close") : log[n].res # "ok"
  /\ At("browser_close") # {}
  /\ "screenshots/trace.zip" \notin fs

\* C8: a step that raises ends the run: no run step follows it, the error
\* screenshot is tried at most once and only with a page, the exception reaches
\* the caller and no summary is written or returned; a summary exists only
\* when every row was submitted, with ok = TRUE and rounds = the number of rows.
C8_FailStop ==
  /\ \A n \in Escaped : \A m \in DOMAIN log :
       m > n => log[m].op \in AftermathOps \/ m \in ErrorShots
  /\ Cardinality(ErrorShots) <= 1
  /\ \A n \in ErrorShots :
       /\ Escaped # {} /\ Min(Escaped) = n - 1
       /\ \E m \in At("new_page") : log[m].res = "ok"
  /\ Escaped # {} =>
       /\ result = <<>>
       /\ "screenshots/run_summary.json" \notin fs
       /\ pc = "done" => outcome = "raised" /\ exc = log[Min(Escaped)].res
  /\ result # <<>> \/ "screenshots/run_summary.json" \in fs =>
       /\ outcome = "returned"
       /\ result # <<>> /\ "screenshots/run_summary.json" \in fs
       /\ result[1].ok
       /\ result[1].rounds = Len(rows)
       /\ Len(submitted) = Len(rows)
       /\ \A r \in DOMAIN rows : \E s \in SubmitsOf(r) : log[s].res = "ok"

C8_Witness ==
  /\ pc = "done"
  /\ outcome = "raised"
  /\ ErrorShots # {}
  /\ \E n \in Escaped : log[n].op = "fill" /\ log[n].round = 2
  /\ Len(submitted) = 1

\* C9: a sheet without rows ends the run with SystemExit before anything is
\* done: no directory, no browser, no page, no summary.
C9_NoRowsNoEffects ==
  Loaded /\ rows = <<>> =>
    /\ pc = "done"
    /\ outcome = "SystemExit"
    /\ log = <<>>
    /\ fs = {}
    /\ ~page
    /\ result = <<>>

C9_Witness ==
  /\ outcome = "SystemExit"
  /\ file.header # <<>>
  /\ file.data = <<>>

====
